---------------------------- MODULE Spec2Model ----------------------------
(***************************************************************************)
(* Model of src/app.py, the Streamlit financial dashboard: the cached      *)
(* download (load_data), the column renaming, the growth index and daily   *)
(* return transforms, the sidebar filters, the four KPI cards, the two     *)
(* threshold alerts, the correlation block and the raw-data view.          *)
(*                                                                         *)
(* One execution of the script is one step of the model: Streamlit runs    *)
(* the whole file top to bottom on a page load and again after every       *)
(* widget change.  What an execution renders is kept in `page`.            *)
(***************************************************************************)
EXTENDS Integers, Sequences, FiniteSets

(***************************************************************************)
(* Bounds of the model.                                                    *)
(***************************************************************************)
MaxRows == 2        \* most rows (trading days) in a provider response
TickStep == 1800    \* seconds the clock advances in one Tick
MaxClock == 5400    \* the clock of a long session stops advancing here

(***************************************************************************)
(* Floats.  A finite float is a reduced fraction <<n, d>> with d > 0; NaN  *)
(* is <<0, 0>>; +inf and -inf are <<1, 0>> and <<-1, 0>>.                  *)
(***************************************************************************)
NaN == <<0, 0>>

IsNaN(x) == x = NaN

IsFinite(x) == x[2] > 0

Abs(n) == IF n < 0 THEN -n ELSE n

RECURSIVE GCD(_, _)
GCD(a, b) == IF b = 0 THEN a ELSE GCD(b, a % b)

Frac(n, d) ==
    IF d = 0 THEN (IF n = 0 THEN NaN ELSE IF n > 0 THEN <<1, 0>> ELSE <<-1, 0>>)
    ELSE LET s == IF d < 0 THEN -1 ELSE 1
             g == GCD(Abs(n), Abs(d))
         IN  <<(s * n) \div g, (s * d) \div g>>

Num(k) == <<k, 1>>

\* x / y on floats: NaN propagates, a finite x over zero is an infinity.
FDiv(x, y) ==
    IF IsNaN(x) \/ IsNaN(y) THEN NaN
    ELSE IF ~IsFinite(x) THEN (IF IsFinite(y) /\ y[1] # 0
                               THEN (IF y[1] > 0 THEN x ELSE <<-x[1], 0>>)
                               ELSE NaN)
    ELSE IF ~IsFinite(y) THEN Num(0)
    ELSE Frac(x[1] * y[2], x[2] * y[1])

\* x * y on floats.
FMul(x, y) ==
    IF IsNaN(x) \/ IsNaN(y) THEN NaN
    ELSE IF IsFinite(x) /\ IsFinite(y) THEN Frac(x[1] * y[1], x[2] * y[2])
    ELSE IF x[1] = 0 \/ y[1] = 0 THEN NaN
    ELSE IF (x[1] > 0) = (y[1] > 0) THEN <<1, 0>> ELSE <<-1, 0>>

\* x - y on floats.
FSub(x, y) ==
    IF IsNaN(x) \/ IsNaN(y) THEN NaN
    ELSE IF IsFinite(x) /\ IsFinite(y)
         THEN Frac(x[1] * y[2] - y[1] * x[2], x[2] * y[2])
    ELSE IF ~IsFinite(x) /\ ~IsFinite(y)
         THEN (IF x[1] = y[1] THEN NaN ELSE x)
    ELSE IF ~IsFinite(x) THEN x ELSE <<-y[1], 0>>

\* x < y on floats: every comparison with NaN is false.
FLt(x, y) ==
    IF IsNaN(x) \/ IsNaN(y) THEN FALSE
    ELSE IF IsFinite(x) /\ IsFinite(y) THEN x[1] * y[2] < y[1] * x[2]
    ELSE IF ~IsFinite(x) /\ ~IsFinite(y) THEN x[1] < y[1]
    ELSE IF ~IsFinite(x) THEN x[1] < 0 ELSE y[1] > 0

FGt(x, y) == FLt(y, x)

(***************************************************************************)
(* DataFrames.  A frame is [index |-> dates, col |-> label -> cells]:      *)
(* `index` is the ascending sequence of row dates and every column holds   *)
(* one float per row.                                                      *)
(***************************************************************************)
NoColumns == [c \in {} |-> <<>>]

\* pd.DataFrame()
EmptyFrame == [index |-> <<>>, col |-> NoColumns]

columns(df) == DOMAIN df.col

nrows(df) == Len(df.index)

\* DataFrame.empty: some axis has length 0.
empty(df) == nrows(df) = 0 \/ columns(df) = {}

\* The rows of a frame picked by position, in the order given.
take(df, rows) ==
    [index |-> [i \in 1..Len(rows) |-> df.index[rows[i]]],
     col   |-> [c \in columns(df) |-> [i \in 1..Len(rows) |-> df.col[c][rows[i]]]]]

\* Series.ffill(): a missing cell takes the last value before it.
RECURSIVE ffillSeries(_)
ffillSeries(s) ==
    IF Len(s) = 0 THEN s
    ELSE LET head == ffillSeries(SubSeq(s, 1, Len(s) - 1))
             last == s[Len(s)]
         IN  Append(head, IF IsNaN(last) /\ Len(head) > 0 THEN head[Len(head)] ELSE last)

ffill(df) == [df EXCEPT !.col = [c \in columns(df) |-> ffillSeries(df.col[c])]]

(***************************************************************************)
(* The tickers.  The model keeps the five tickers the dashboard monitors   *)
(* (KPI cards and alerts); of the seven default tickers these are AAPL and *)
(* NVDA.  The eleven others are downloaded and charted like AAPL and have  *)
(* no card or alert of their own.                                          *)
(***************************************************************************)
TICKERS_BIG_SEVEN == {"AAPL", "NVDA"}

TICKERS_FX == {"MXN=X", "EURUSD=X"}

TICKERS_RATES == {"CETETRC.MX"}

ALL_TICKERS == TICKERS_BIG_SEVEN \cup TICKERS_FX \cup TICKERS_RATES

(***************************************************************************)
(* load_data: the body that runs on a cache miss.  `resp` is what          *)
(* yf.download(...)['Close'] does: it raises, or it gives a frame, or it   *)
(* gives a Series (kind "series": one column, labelled by the Series name, *)
(* which to_frame() keeps).  The result is the returned frame and whether  *)
(* load_data showed its st.error.                                          *)
(***************************************************************************)
load_data(resp) ==
    IF resp.kind = "raise"
    THEN [data |-> EmptyFrame, error |-> TRUE]
    ELSE [data |-> ffill(resp.frame), error |-> FALSE]

(***************************************************************************)
(* The renaming of the columns.  Both branches (the str.replace chain when *)
(* a column is called 'Close', DataFrame.rename otherwise) apply the same  *)
(* four replacements; they agree on every label of the model.              *)
(***************************************************************************)
label(c) ==
    CASE c = "SHY"        -> "Bonos_Tesoro_USA (SHY)"
      [] c = "CETETRC.MX" -> "CETES_Mexico (ETF)"
      [] c = "MXN=X"      -> "USD/MXN"
      [] c = "EURUSD=X"   -> "EUR/USD"
      [] OTHER            -> c

rename(df) ==
    [index |-> df.index,
     col   |-> [l \in {label(c) : c \in columns(df)} |->
                   df.col[CHOOSE c \in columns(df) : label(c) = l]]]

(***************************************************************************)
(* The transforms.                                                         *)
(***************************************************************************)
\* (data_historica / data_historica.iloc[0]) * 100
data_normalizada(df) ==
    [index |-> df.index,
     col   |-> [c \in columns(df) |->
                   [i \in 1..nrows(df) |->
                       FMul(FDiv(df.col[c][i], df.col[c][1]), Num(100))]]]

\* DataFrame.pct_change(): the first row is missing.
pct_change(df) ==
    [index |-> df.index,
     col   |-> [c \in columns(df) |->
                   [i \in 1..nrows(df) |->
                       IF i = 1 THEN NaN
                       ELSE FSub(FDiv(df.col[c][i], df.col[c][i - 1]), Num(1))]]]

\* DataFrame.dropna(): drops every row that holds a missing value.
dropna(df) ==
    take(df, SelectSeq([i \in 1..nrows(df) |-> i],
                       LAMBDA i : \A c \in columns(df) : ~IsNaN(df.col[c][i])))

rendimientos_diarios(df) == dropna(pct_change(df))

\* loc with the end of the slice left out, as a positional slice would.
loc_exclusive(df, a, b, sel) ==
    LET rows == SelectSeq([i \in 1..nrows(df) |-> i],
                          LAMBDA i : a <= df.index[i] /\ df.index[i] < b)
    IN  [index |-> [i \in 1..Len(rows) |-> df.index[rows[i]]],
         col   |-> [c \in sel |-> [i \in 1..Len(rows) |-> df.col[c][rows[i]]]]]

\* df.loc[a:b, sel]: the rows whose date lies in [a, b], the columns sel.
loc(df, a, b, sel) ==
    LET rows == SelectSeq([i \in 1..nrows(df) |-> i],
                          LAMBDA i : a <= df.index[i] /\ df.index[i] <= b)
    IN  [index |-> [i \in 1..Len(rows) |-> df.index[rows[i]]],
         col   |-> [c \in sel |-> [i \in 1..Len(rows) |-> df.col[c][rows[i]]]]]

\* df[sel].tail(10)
tail10(df, sel) ==
    LET n == nrows(df)
        first == IF n > 10 THEN n - 9 ELSE 1
    IN  [index |-> SubSeq(df.index, first, n),
         col   |-> [c \in sel |-> SubSeq(df.col[c], first, n)]]

(***************************************************************************)
(* The KPI cards.  Each card is its own try/except: a missing column       *)
(* (KeyError) or a frame with one row (IndexError of iloc[-2]) gives the   *)
(* "N/A" card.  A card is [shown, na, value, delta].                       *)
(***************************************************************************)
KPI_LABELS == {"AAPL", "USD/MXN", "CETES_Mexico (ETF)", "EUR/USD"}

NoCard == [shown |-> FALSE, na |-> FALSE, value |-> NaN, delta |-> NaN]

metric(df, lbl) ==
    IF lbl \notin columns(df) \/ nrows(df) < 2
    THEN [shown |-> TRUE, na |-> TRUE, value |-> NaN, delta |-> NaN]
    ELSE LET s == df.col[lbl]
             n == Len(s)
         IN  [shown |-> TRUE, na |-> FALSE, value |-> s[n],
              delta |-> FSub(FDiv(s[n], s[n - 1]), Num(1))]

(***************************************************************************)
(* The alerts.  An alert is [shown, call, msg, value]: `call` is the       *)
(* Streamlit call that renders it and `msg` names the message.             *)
(***************************************************************************)
umbral_nvda_correccion == 150
umbral_nvda_euforia == 750
umbral_usdmxn_debil == 19
umbral_usdmxn_fuerte == 17

NoAlert == [shown |-> FALSE, call |-> "none", msg |-> "none", value |-> NaN]

\* alerta_nvda with the boundaries taken into the outer bands.
alerta_nvda_inclusive(df) ==
    IF "NVDA" \notin columns(df) \/ nrows(df) < 1
    THEN [shown |-> TRUE, call |-> "error", msg |-> "no_verificada", value |-> NaN]
    ELSE LET precio_actual_nvda == df.col["NVDA"][nrows(df)]
         IN  IF ~FGt(precio_actual_nvda, Num(umbral_nvda_correccion))
                /\ ~IsNaN(precio_actual_nvda)
             THEN [shown |-> TRUE, call |-> "warning", msg |-> "correccion",
                   value |-> precio_actual_nvda]
             ELSE IF ~FLt(precio_actual_nvda, Num(umbral_nvda_euforia))
                     /\ ~IsNaN(precio_actual_nvda)
             THEN [shown |-> TRUE, call |-> "info", msg |-> "euforia",
                   value |-> precio_actual_nvda]
             ELSE [shown |-> TRUE, call |-> "success", msg |-> "rango_operativo",
                   value |-> precio_actual_nvda]

alerta_nvda(df) ==
    IF "NVDA" \notin columns(df) \/ nrows(df) < 1
    THEN [shown |-> TRUE, call |-> "error", msg |-> "no_verificada", value |-> NaN]
    ELSE LET precio_actual_nvda == df.col["NVDA"][nrows(df)]
         IN  IF FLt(precio_actual_nvda, Num(umbral_nvda_correccion))
             THEN [shown |-> TRUE, call |-> "warning", msg |-> "correccion",
                   value |-> precio_actual_nvda]
             ELSE IF FGt(precio_actual_nvda, Num(umbral_nvda_euforia))
             THEN [shown |-> TRUE, call |-> "info", msg |-> "euforia",
                   value |-> precio_actual_nvda]
             ELSE [shown |-> TRUE, call |-> "success", msg |-> "rango_operativo",
                   value |-> precio_actual_nvda]

alerta_usdmxn(df) ==
    IF "USD/MXN" \notin columns(df) \/ nrows(df) < 1
    THEN [shown |-> TRUE, call |-> "error", msg |-> "no_verificada", value |-> NaN]
    ELSE LET precio_actual_usdmxn == df.col["USD/MXN"][nrows(df)]
         IN  IF FGt(precio_actual_usdmxn, Num(umbral_usdmxn_debil))
             THEN [shown |-> TRUE, call |-> "error", msg |-> "riesgo_mxn",
                   value |-> precio_actual_usdmxn]
             ELSE IF FLt(precio_actual_usdmxn, Num(umbral_usdmxn_fuerte))
             THEN [shown |-> TRUE, call |-> "success", msg |-> "oportunidad_mxn",
                   value |-> precio_actual_usdmxn]
             ELSE [shown |-> TRUE, call |-> "info", msg |-> "rango_neutro",
                   value |-> precio_actual_usdmxn]

(***************************************************************************)
(* The correlation block.  The coefficients themselves are not computed:   *)
(* `numbers` is the set of pairs of columns whose Pearson coefficient is a *)
(* number, which takes two observations and two columns that both vary;    *)
(* every other cell of the matrix is NaN.                                  *)
(***************************************************************************)
NoCorr == [shown |-> "none", labels |-> {}, nobs |-> 0, numbers |-> {}]

varies(s) == \E i, j \in 1..Len(s) : s[i] # s[j]

corr(df) ==
    [shown   |-> "matrix",
     labels  |-> columns(df),
     nobs    |-> nrows(df),
     numbers |-> {pr \in columns(df) \X columns(df) :
                     varies(df.col[pr[1]]) /\ varies(df.col[pr[2]])}]

col_corr(rendimientos_filtrados, activos_seleccionados) ==
    IF ~empty(rendimientos_filtrados) /\ Cardinality(activos_seleccionados) > 1
    THEN corr(rendimientos_filtrados)
    ELSE [NoCorr EXCEPT !.shown = "info"]

(***************************************************************************)
(* One execution of the script.  `ld` is what load_data returned (frame    *)
(* and whether its st.error is shown) and `w` holds the browser's widget   *)
(* values: a widget keeps the value the user gave it as long as its        *)
(* options (multiselect) or its minimum and maximum (date inputs) are      *)
(* those of the run that rendered it, and is back at its default           *)
(* otherwise.  st.sidebar.multiselect raises when a default is not among   *)
(* the options, which ends the execution there.                            *)
(***************************************************************************)
BlankPage ==
    [ran |-> FALSE, fetched |-> FALSE, loadError |-> FALSE, topError |-> FALSE,
     aborted |-> FALSE, widgets |-> FALSE, steps |-> {},
     data_historica |-> EmptyFrame, data_normalizada |-> EmptyFrame,
     rendimientos_diarios |-> EmptyFrame,
     options |-> {}, sel |-> {}, lo |-> 0, hi |-> 0,
     fecha_inicio |-> 0, fecha_fin |-> 0, rangeError |-> FALSE,
     fecha_inicio_ts |-> 0, fecha_fin_ts |-> 0,
     data_filtrada |-> EmptyFrame, rendimientos_filtrados |-> EmptyFrame,
     kpi |-> [l \in KPI_LABELS |-> NoCard],
     nvda |-> NoAlert, usdmxn |-> NoAlert,
     crecimiento |-> "none", histograma |-> "none",
     corr |-> NoCorr, raw |-> EmptyFrame, loaded |-> EmptyFrame]

\* EmptyRun without the else branch: nothing tells the user.
EmptyRunSilent(ld) ==
    [BlankPage EXCEPT !.ran = TRUE, !.loadError = ld.error,
                      !.data_historica = ld.data, !.loaded = ld.data]

\* The else branch of the module body: only the top-level st.error.
EmptyRun(ld) ==
    [BlankPage EXCEPT !.ran = TRUE, !.loadError = ld.error, !.topError = TRUE,
                      !.data_historica = ld.data, !.loaded = ld.data]

\* The execution up to the multiselect that raises.
AbortedRun(ld, historica) ==
    [BlankPage EXCEPT !.ran = TRUE, !.loadError = ld.error, !.aborted = TRUE,
                      !.steps = {"rename", "growth_index", "daily_returns"},
                      !.data_historica = historica,
                      !.data_normalizada = data_normalizada(historica),
                      !.rendimientos_diarios = rendimientos_diarios(historica),
                      !.options = columns(historica), !.loaded = ld.data]

FullRun(ld, historica, w) ==
    LET normalizada == data_normalizada(historica)
        rendimientos == rendimientos_diarios(historica)
        activos_disponibles == columns(historica)
        activos_seleccionados ==
            IF w.widgets /\ w.options = activos_disponibles
            THEN w.sel ELSE TICKERS_BIG_SEVEN
        fecha_min == historica.index[1]
        fecha_max == historica.index[nrows(historica)]
        kept == w.widgets /\ w.lo = fecha_min /\ w.hi = fecha_max
        fecha_inicio == IF kept THEN w.fecha_inicio ELSE fecha_min
        fecha_fin == IF kept THEN w.fecha_fin ELSE fecha_max
        invalid == fecha_inicio > fecha_fin
        fecha_inicio_ts == IF invalid THEN fecha_min ELSE fecha_inicio
        fecha_fin_ts == IF invalid THEN fecha_max ELSE fecha_fin
        data_filtrada ==
            IF activos_seleccionados # {}
            THEN loc(normalizada, fecha_inicio_ts, fecha_fin_ts, activos_seleccionados)
            ELSE EmptyFrame
        rendimientos_filtrados ==
            IF activos_seleccionados # {}
            THEN loc(rendimientos, fecha_inicio_ts, fecha_fin_ts, activos_seleccionados)
            ELSE EmptyFrame
    IN  [ran |-> TRUE, fetched |-> FALSE, loadError |-> ld.error, topError |-> FALSE,
         aborted |-> FALSE, widgets |-> TRUE,
         steps |-> {"rename", "growth_index", "daily_returns", "filters", "kpis",
                    "alerts", "correlation", "raw_view"},
         data_historica |-> historica, data_normalizada |-> normalizada,
         rendimientos_diarios |-> rendimientos,
         options |-> activos_disponibles, sel |-> activos_seleccionados,
         lo |-> fecha_min, hi |-> fecha_max,
         fecha_inicio |-> fecha_inicio, fecha_fin |-> fecha_fin,
         rangeError |-> invalid,
         fecha_inicio_ts |-> fecha_inicio_ts, fecha_fin_ts |-> fecha_fin_ts,
         data_filtrada |-> data_filtrada,
         rendimientos_filtrados |-> rendimientos_filtrados,
         kpi |-> [l \in KPI_LABELS |-> metric(historica, l)],
         nvda |-> alerta_nvda(historica), usdmxn |-> alerta_usdmxn(historica),
         crecimiento |-> IF ~empty(data_filtrada) THEN "chart" ELSE "info",
         histograma |-> IF ~empty(rendimientos_filtrados)
                           /\ Cardinality(activos_seleccionados) > 0
                        THEN "chart" ELSE "info",
         corr |-> col_corr(rendimientos_filtrados, activos_seleccionados),
         raw |-> tail10(historica, activos_seleccionados),
         loaded |-> ld.data]

Script(ld, w) ==
    IF empty(ld.data) THEN EmptyRun(ld)
    ELSE LET historica == rename(ld.data)
         IN  IF TICKERS_BIG_SEVEN \subseteq columns(historica)
             THEN FullRun(ld, historica, w)
             ELSE AbortedRun(ld, historica)

(***************************************************************************)
(* The provider.  What yf.download answers is not the program's to choose: *)
(* the model draws it from a family of responses around a baseline quote   *)
(* sheet.  The family holds the failure (an exception), frames of 0 to     *)
(* MaxRows rows with every subset of the tickers as columns, frames whose  *)
(* latest NVDA or MXN=X quote sits below, on, between and above the alert  *)
(* thresholds, frames in which one ticker has no quote on its first rows   *)
(* (a later listing; all rows: a ticker the provider has no data for),     *)
(* frames with a gap inside a column (a holiday), and a Series.            *)
(***************************************************************************)
\* The date of the t-th trading day: day 2 is not a trading day.
TradingDay(t) == IF t <= 1 THEN t ELSE t + 1

Quote(c, t) ==
    CASE c = "AAPL"       -> Num(200 + 10 * t)
      [] c = "NVDA"       -> Num(400 - 20 * t)
      [] c = "MXN=X"      -> Frac(180 + t, 10)
      [] c = "EURUSD=X"   -> Frac(108 + t * t, 100)
      [] c = "CETETRC.MX" -> Num(100 + t)
      [] OTHER            -> Num(50 + t)

NVDA_LEVELS == {Num(140), Num(150), Num(400), Num(750), Num(760)}

MXN_LEVELS == {Num(16), Num(17), Num(18), Num(19), Num(20)}

BaseFrame(n, tickers) ==
    [index |-> [t \in 1..n |-> TradingDay(t)],
     col   |-> [c \in tickers |-> [t \in 1..n |-> Quote(c, t)]]]

\* The frame with the cells of column c on the rows in `rows` set to v.
WithCells(df, c, rows, v) ==
    [df EXCEPT !.col[c] = [t \in 1..nrows(df) |-> IF t \in rows THEN v ELSE @[t]]]

Frames ==
    UNION {
        {BaseFrame(n, tickers) : tickers \in SUBSET ALL_TICKERS}
        \cup {WithCells(BaseFrame(n, ALL_TICKERS), "NVDA", {n}, v) : v \in NVDA_LEVELS}
        \cup {WithCells(BaseFrame(n, ALL_TICKERS), "MXN=X", {n}, v) : v \in MXN_LEVELS}
        \cup {WithCells(BaseFrame(n, ALL_TICKERS), c, 1..k, NaN) :
                 c \in ALL_TICKERS, k \in 1..n}
        \cup {WithCells(BaseFrame(n, ALL_TICKERS), "MXN=X", {t}, NaN) : t \in 2..n}
      : n \in 0..MaxRows}

Responses ==
    {[kind |-> "raise", frame |-> EmptyFrame]}
    \cup {[kind |-> "frame", frame |-> f] : f \in Frames}
    \cup {[kind |-> "series", frame |-> BaseFrame(n, {"Close"})] : n \in 1..MaxRows}

\* A few of them: the failure, the empty frame and two baseline frames.
FewResponses ==
    {[kind |-> "raise", frame |-> EmptyFrame]}
    \cup {[kind |-> "frame", frame |-> BaseFrame(n, ALL_TICKERS)] : n \in {0, 1, MaxRows}}

(***************************************************************************)
(* The state: the st.cache_data entry of load_data (its one key, the       *)
(* tickers and the period, never changes), the wall clock in seconds, what *)
(* the last execution of the script rendered, and the environment of the   *)
(* session, which no step changes: the responses the provider may give and *)
(* the time the session lasts.                                             *)
(***************************************************************************)
VARIABLES cache, clock, page, env

vars == <<cache, clock, page, env>>

ttl == 3600

NoEntry == [valid |-> FALSE, data |-> EmptyFrame, error |-> FALSE, storedAt |-> 0]

\* fresh with an entry of age ttl still served.
fresh_at_ttl(entry, now) == entry.valid /\ now - entry.storedAt <= ttl

\* An entry is served while it is younger than ttl.
fresh(entry, now) == entry.valid /\ now - entry.storedAt < ttl

\* st.cache_data hands out a copy of the stored value: the renaming the
\* caller does in place on data_historica leaves the entry as it was stored.
entry_after_run(entry, historica) == entry

provider == IF env.wide THEN Responses ELSE FewResponses

\* The script runs with the widget values w: load_data through the cache,
\* then the module body.
Exec(w) ==
    IF fresh(cache, clock)
    THEN LET run == Script([data |-> cache.data, error |-> cache.error], w)
         IN  /\ page' = [run EXCEPT !.fetched = FALSE]
             /\ cache' = entry_after_run(cache, run.data_historica)
    ELSE \E resp \in provider :
            LET ld == load_data(resp)
                run == Script(ld, w)
                entry == [valid |-> TRUE, data |-> ld.data, error |-> ld.error,
                          storedAt |-> clock]
            IN  /\ page' = [run EXCEPT !.fetched = TRUE]
                /\ cache' = entry_after_run(entry, run.data_historica)

\* A page load or a refresh: the widgets keep their values.
Rerun ==
    /\ Exec(page)
    /\ UNCHANGED <<clock, env>>

\* The user adds an asset to the multiselect or removes one from it.
SelectAssets ==
    /\ page.widgets
    /\ \E a \in page.options :
          Exec([page EXCEPT !.sel = IF a \in @ THEN @ \ {a} ELSE @ \cup {a}])
    /\ UNCHANGED <<clock, env>>

\* The user picks a start date between the minimum and the maximum.
PickStart ==
    /\ page.widgets
    /\ \E d \in page.lo..page.hi :
          /\ d # page.fecha_inicio
          /\ Exec([page EXCEPT !.fecha_inicio = d])
    /\ UNCHANGED <<clock, env>>

\* The user picks an end date between the minimum and the maximum.
PickEnd ==
    /\ page.widgets
    /\ \E d \in page.lo..page.hi :
          /\ d # page.fecha_fin
          /\ Exec([page EXCEPT !.fecha_fin = d])
    /\ UNCHANGED <<clock, env>>

\* Time passes.
Tick ==
    /\ clock + TickStep <= env.horizon
    /\ clock' = clock + TickStep
    /\ UNCHANGED <<cache, page, env>>

Next == Rerun \/ SelectAssets \/ PickStart \/ PickEnd \/ Tick

\* A session shorter than ttl against every response of the provider.
Init ==
    /\ cache = NoEntry
    /\ clock = 0
    /\ page = BlankPage
    /\ env = [wide |-> TRUE, horizon |-> TickStep]

Spec == Init /\ [][Next]_vars

\* A session that outlasts ttl against a few responses.
InitLong ==
    /\ cache = NoEntry
    /\ clock = 0
    /\ page = BlankPage
    /\ env = [wide |-> FALSE, horizon |-> MaxClock]

SpecLong == InitLong /\ [][Next]_vars

(***************************************************************************)
(* Properties.                                                             *)
(***************************************************************************)
\* The columns of the price table of the last execution, and its rows.
Cols == columns(page.data_historica)
N == nrows(page.data_historica)

\* The observations the price table holds for a label.
Observations(lbl) ==
    IF lbl \in Cols
    THEN Cardinality({i \in 1..N : ~IsNaN(page.data_historica.col[lbl][i])})
    ELSE 0

\* The latest price of a label (its column is there and the table has rows).
Latest(lbl) == page.data_historica.col[lbl][N]

\* The dates of ix that lie in [a, b], in the order of ix.
DatesWithin(ix, a, b) == SelectSeq(ix, LAMBDA d : a <= d /\ d <= b)

\* The frame `part` holds the rows of `whole` dated within [a, b], in order,
\* with the cells of the columns `labels`.
IsSlice(part, whole, a, b, labels) ==
    /\ part.index = DatesWithin(whole.index, a, b)
    /\ columns(part) = labels
    /\ \A c \in labels : \A i \in 1..Len(part.index) :
          \E j \in 1..nrows(whole) :
             whole.index[j] = part.index[i] /\ whole.col[c][j] = part.col[c][i]

(* C1: whenever the NVDA alert is evaluated on a table whose latest NVDA   *)
(* price v is a number, exactly one of the three messages is shown: the    *)
(* correction warning iff v < 150, the euphoria notice iff v > 750, the    *)
(* operating-range message iff 150 <= v <= 750; so 150 and 750 are in      *)
(* range, 140 is a correction, 400 in range, 760 euphoria.                 *)
C1_NvdaBands ==
    (page.widgets /\ "NVDA" \in Cols /\ ~IsNaN(Latest("NVDA"))) =>
        LET v == Latest("NVDA")
            m == page.nvda.msg
        IN  /\ page.nvda.shown
            /\ page.nvda.value = v
            /\ m \in {"correccion", "euforia", "rango_operativo"}
            /\ (m = "correccion") = (v[1] < 150 * v[2])
            /\ (m = "euforia") = (v[1] > 750 * v[2])
            /\ (m = "rango_operativo") = (150 * v[2] <= v[1] /\ v[1] <= 750 * v[2])
            /\ (m = "correccion") = (page.nvda.call = "warning")
            /\ (m = "euforia") = (page.nvda.call = "info")
            /\ (m = "rango_operativo") = (page.nvda.call = "success")
            /\ (v = <<150, 1>> => m = "rango_operativo")
            /\ (v = <<750, 1>> => m = "rango_operativo")
            /\ (v = <<140, 1>> => m = "correccion")
            /\ (v = <<400, 1>> => m = "rango_operativo")
            /\ (v = <<760, 1>> => m = "euforia")

\* C1's case: a table of several rows whose latest NVDA price is the lower
\* threshold itself, reported in range.
C1_Witness ==
    /\ page.widgets /\ "NVDA" \in Cols /\ N >= 2
    /\ Latest("NVDA") = <<150, 1>>
    /\ page.nvda.msg = "rango_operativo"

(* C2: for each alert subject (NVDA, USD/MXN), when the price table holds  *)
(* fewer than 2 observations for it (a single row, or a column without any *)
(* value), the alert shown is the "could not verify" one and not a band;   *)
(* the other subject's alert is shown all the same.                        *)
C2_FewObservationsUnavailable ==
    page.widgets =>
        /\ page.nvda.shown /\ page.usdmxn.shown
        /\ (Observations("NVDA") < 2 => page.nvda.msg = "no_verificada")
        /\ (Observations("USD/MXN") < 2 => page.usdmxn.msg = "no_verificada")

(* C3: on every non-empty price table every one of the six subjects (KPI   *)
(* cards AAPL, USD/MXN, CETES_Mexico (ETF), EUR/USD; alerts NVDA, USD/MXN) *)
(* is rendered: degraded ("N/A" card, "could not verify" alert) exactly    *)
(* when its column is absent or the table has fewer than 2 rows, computed  *)
(* otherwise; no subject's failure ends the execution early.               *)
C3_SubjectsIsolated ==
    (page.ran /\ ~empty(page.loaded)) =>
        /\ ~page.aborted
        /\ \A l \in KPI_LABELS :
              /\ page.kpi[l].shown
              /\ page.kpi[l].na = (l \notin Cols \/ N < 2)
        /\ page.nvda.shown
        /\ (page.nvda.msg = "no_verificada") = ("NVDA" \notin Cols \/ N < 2)
        /\ page.usdmxn.shown
        /\ (page.usdmxn.msg = "no_verificada") = ("USD/MXN" \notin Cols \/ N < 2)

(* C4: whenever the provider fails (it raises, or it answers with nothing) *)
(* load_data returns an empty table together with a diagnostic that        *)
(* load_data itself shows.                                                 *)
C4_FailureHasOwnDiagnostic ==
    (page.ran /\ page.fetched /\ empty(page.loaded)) => page.loadError

(* C5: when load_data returns an empty table the execution does none of    *)
(* the dependent steps (renaming, growth index, daily returns, filters,    *)
(* KPIs, alerts, correlation, raw-data view) and shows the top-level       *)
(* diagnostic; when the table is not empty that diagnostic is not shown.   *)
C5_EmptyHaltsDependents ==
    page.ran =>
        IF Len(page.loaded.index) = 0 \/ DOMAIN page.loaded.col = {}
        THEN /\ page.topError
             /\ page.steps = {}
             /\ ~page.widgets
             /\ page.data_historica = page.loaded
             /\ page.data_normalizada = EmptyFrame
             /\ page.rendimientos_diarios = EmptyFrame
             /\ \A l \in KPI_LABELS : ~page.kpi[l].shown
             /\ ~page.nvda.shown /\ ~page.usdmxn.shown
             /\ page.corr.shown = "none"
             /\ page.crecimiento = "none" /\ page.histograma = "none"
        ELSE /\ ~page.topError
             /\ "rename" \in page.steps

\* C5's case: the provider answered with a frame without rows, load_data
\* returned it without a message of its own, and only the top-level
\* diagnostic is on the page.
C5_Witness ==
    /\ page.ran /\ page.fetched
    /\ Len(page.loaded.index) = 0 /\ DOMAIN page.loaded.col # {}
    /\ page.topError /\ ~page.loadError /\ page.steps = {}

(* C6: for a price table of N >= 1 rows in which every column has an       *)
(* observation, also when a column has leading missing rows, the return    *)
(* table has exactly N-1 rows, one for each date after the first, and its  *)
(* cell at date t is price[t]/price[t-1] - 1.                              *)
C6_ReturnsHaveNMinusOneRows ==
    ("daily_returns" \in page.steps /\ \A c \in Cols : Observations(c) > 0) =>
        LET h == page.data_historica
            r == page.rendimientos_diarios
        IN  /\ nrows(r) = N - 1
            /\ r.index = SubSeq(h.index, 2, N)
            /\ columns(r) = Cols
            /\ \A c \in Cols : \A i \in 1..(N - 1) :
                  r.col[c][i] = FSub(FDiv(h.col[c][i + 1], h.col[c][i]), Num(1))

(* C7: in the growth index of a price table every column that has an       *)
(* observation is its prices divided by the column's first non-missing     *)
(* value and multiplied by 100, so that the column reads 100 at its first  *)
(* observation (which is the first row when nothing is missing).           *)
C7_GrowthIndexStartsAt100 ==
    ("growth_index" \in page.steps) =>
        \A c \in Cols :
            Observations(c) > 0 =>
                LET h == page.data_historica.col[c]
                    g == page.data_normalizada.col[c]
                    first == CHOOSE i \in 1..N :
                                /\ ~IsNaN(h[i])
                                /\ \A j \in 1..(i - 1) : IsNaN(h[j])
                IN  /\ g[first] = Num(100)
                    /\ \A i \in 1..N : g[i] = FMul(FDiv(h[i], h[first]), Num(100))

(* C8: when the chosen start date is after the chosen end date the         *)
(* execution shows the sidebar error and, in that same execution, filters  *)
(* by the full range [first date, last date]; when start <= end no error   *)
(* is shown and the filtered tables hold exactly the rows dated within     *)
(* [start, end], in their order (the assets selected being at least one).  *)
C8_InvalidRangeSignalled ==
    page.widgets =>
        /\ page.rangeError = (page.fecha_inicio > page.fecha_fin)
        /\ IF page.fecha_inicio > page.fecha_fin
           THEN /\ page.fecha_inicio_ts = page.data_historica.index[1]
                /\ page.fecha_fin_ts = page.data_historica.index[N]
           ELSE /\ page.fecha_inicio_ts = page.fecha_inicio
                /\ page.fecha_fin_ts = page.fecha_fin
        /\ page.sel # {} =>
              /\ IsSlice(page.data_filtrada, page.data_normalizada,
                         page.fecha_inicio_ts, page.fecha_fin_ts, page.sel)
              /\ IsSlice(page.rendimientos_filtrados, page.rendimientos_diarios,
                         page.fecha_inicio_ts, page.fecha_fin_ts, page.sel)
              /\ (page.rangeError =>
                     /\ page.data_filtrada.index = page.data_normalizada.index
                     /\ page.rendimientos_filtrados.index
                           = page.rendimientos_diarios.index)

\* C8's case: the user has put the start after the end on a table of
\* several rows; the error is on the page and every row is kept.
C8_Witness ==
    /\ page.widgets /\ page.sel # {} /\ N >= 2
    /\ page.fecha_inicio > page.fecha_fin
    /\ page.rangeError
    /\ nrows(page.data_filtrada) = N

(* C9: the correlation block shows a matrix only when the filtered return  *)
(* table has at least 2 columns and at least 2 rows; with fewer selected   *)
(* assets or fewer return rows in the range it shows the info message.     *)
C9_NoDegenerateMatrix ==
    page.widgets =>
        LET enough == /\ Cardinality(columns(page.rendimientos_filtrados)) >= 2
                      /\ nrows(page.rendimientos_filtrados) >= 2
        IN  /\ (page.corr.shown = "matrix") => enough
            /\ ~enough => page.corr.shown = "info"

(* C10: an execution that calls load_data while an entry younger than 3600 *)
(* seconds is stored gets that entry's frame and the provider is not       *)
(* called; an execution that finds no entry, or one of age 3600 seconds or *)
(* more, calls the provider once, stores what load_data returned at the    *)
(* current time and gets it; the renaming the caller does on the returned  *)
(* frame never changes the stored one.                                     *)
C10_CacheTtl ==
    [][(clock' = clock) =>
          IF cache.valid /\ clock - cache.storedAt < 3600
          THEN /\ ~page'.fetched
               /\ page'.loaded = cache.data
               /\ cache' = cache
          ELSE /\ page'.fetched
               /\ cache'.valid
               /\ cache'.storedAt = clock
               /\ cache'.data = page'.loaded]_vars

\* C10's case: the entry stored at time 0 has expired, the execution at
\* 3600 seconds or later has fetched again, and the stored frame still has
\* the provider's labels while the page has the renamed ones.
C10_Witness ==
    /\ page.fetched /\ cache.valid /\ cache.storedAt >= 3600
    /\ "MXN=X" \in columns(cache.data)
    /\ "USD/MXN" \in Cols

=============================================================================
